---- MODULE Spec2Model ----
(***************************************************************************)
(* The hazard-scoring pipeline of ai-environmental-risk-predictor:         *)
(*   engineer_features (src/src/feature_engineering.py)                    *)
(*   predict_risks     (src/src/predict.py, src/src/predict_risks.py)      *)
(*   apply_risk_alerts (src/src/recommendation.py) and apply_alerts        *)
(*                     (src/src/rule_recommendations.py)                   *)
(*                                                                         *)
(* Conventions.                                                            *)
(*  - A probability is an integer number of hundredths (0.1 is 10, 1.0 is  *)
(*    100); np.nan is the value NaN, and every float comparison goes       *)
(*    through FloatLt / FloatGt, which are false as soon as one side is    *)
(*    NaN, as in Python.                                                   *)
(*  - A column name is a pair <<stem, suffix>> standing for the string     *)
(*    stem + "_" + suffix ("flood_risk_prob" is <<"flood", "risk_prob">>); *)
(*    a feature column has the empty suffix.                               *)
(*  - A table is [nrows, cols, data, numeric]: the row count, the column   *)
(*    names in DataFrame order, the cells of each column as a sequence     *)
(*    of nrows values, and the set of columns of a numeric dtype.          *)
(*  - The alert labels are the source's strings with the dash in ASCII.    *)
(*  - src/src/predict.py holds, for several statements, the superseded     *)
(*    statement right before its replacement (lines 38/39, 43/44, 58/59,   *)
(*    70-72/73, 76/78, 81/82) and stops at line 85; the replacement is     *)
(*    the statement modelled, and what follows line 85 (and the body of    *)
(*    align_features) is modelled from the specification.                  *)
(***************************************************************************)
EXTENDS Integers, Sequences, FiniteSets, TLC

VARIABLES
    df,       \* the feature table handed to predict_risks
    models,   \* the model registry, in iteration (dict) order
    pc,       \* "start", "predicted", "error" or "alerted"
    tbl,      \* the table the pipeline currently holds
    passed,   \* per hazard, the feature table its model was scored on
    ran,      \* the stages that have run, in order
    obs,      \* the observation table handed to engineer_features
    feat,     \* the table engineer_features returned
    fe_pc     \* "raw" or "engineered"

vars == <<df, models, pc, tbl, passed, ran, obs, feat, fe_pc>>

-----------------------------------------------------------------------------
(* Bounds of the model *)

MaxModels == 3
MaxRows == 2
MaxObsRows == 7

-----------------------------------------------------------------------------
(* Values *)

NaN == -1

FloatLt(a, b) == a # NaN /\ b # NaN /\ a < b

FloatGt(a, b) == a # NaN /\ b # NaN /\ a > b

Range(s) == {s[i] : i \in 1..Len(s)}

Const(n, v) == [r \in 1..n |-> v]

Low == "Low Risk - No Action"

Moderate == "Moderate Risk - Stay Alert"

High == "High Risk - Prepare Precautions"

Severe == "Severe Risk - Take Immediate Action"

NoRisks == "No Risks Predicted"

-----------------------------------------------------------------------------
(* Tables *)

HasCol(t, c) == c \in Range(t.cols)

\* df[c] = vals: a new column goes last, an existing one keeps its place.
SetCol(t, c, vals, isNum) ==
    [nrows   |-> t.nrows,
     cols    |-> IF HasCol(t, c) THEN t.cols ELSE Append(t.cols, c),
     data    |-> [k \in Range(t.cols) \cup {c} |-> IF k = c THEN vals ELSE t.data[k]],
     numeric |-> IF isNum THEN t.numeric \cup {c} ELSE t.numeric \ {c}]

ProbCol(h) == <<h, "risk_prob">>

PredCol(h) == <<h, "risk_pred">>

AlertCol(h) == <<h, "risk_alert">>

OverallCol == <<"overall", "alert">>

-----------------------------------------------------------------------------
(* src/src/recommendation.py *)

risk_alert_le(prob) ==
    IF prob # NaN /\ prob <= 10 THEN Low
    ELSE IF prob # NaN /\ prob <= 30 THEN Moderate
    ELSE IF prob # NaN /\ prob <= 50 THEN High
    ELSE Severe

risk_alert(prob) ==
    IF FloatLt(prob, 10) THEN Low
    ELSE IF FloatLt(prob, 30) THEN Moderate
    ELSE IF FloatLt(prob, 50) THEN High
    ELSE Severe

severity_order == <<Low, Moderate, High, Severe>>

\* list.index: the 0-based place of the first occurrence.
ListIndex(list, x) == (CHOOSE i \in 1..Len(list) :
                          list[i] = x /\ \A j \in 1..(i - 1) : list[j] # x) - 1

\* max(severities, key=...): the first element whose key no other exceeds.
RECURSIVE MaxByKey(_, _, _)
MaxByKey(list, i, best) ==
    IF i > Len(list) THEN best
    ELSE MaxByKey(list, i + 1,
                  IF ListIndex(severity_order, list[i]) > ListIndex(severity_order, best)
                  THEN list[i] ELSE best)

MinByKey(list) ==
    CHOOSE x \in Range(list) :
        \A y \in Range(list) : ListIndex(severity_order, x) <= ListIndex(severity_order, y)

overall_alert(severities) == MaxByKey(severities, 2, severities[1])

\* col.endswith("_risk_prob"), in column order
risk_prob_cols(t) == SelectSeq(t.cols, LAMBDA c : c[2] = "risk_prob")

\* prob_col.replace("_prob", "_alert")
alert_col_of(c) == <<c[1], "risk_alert">>

RECURSIVE individual_alerts(_, _, _)
individual_alerts(t, pcols, i) ==
    IF i > Len(pcols) THEN t
    ELSE individual_alerts(
             SetCol(t, alert_col_of(pcols[i]),
                    [r \in 1..t.nrows |-> risk_alert(t.data[pcols[i]][r])], FALSE),
             pcols, i + 1)

apply_risk_alerts_no_else(t) ==
    LET pcols == risk_prob_cols(t)
        t1    == individual_alerts(t, pcols, 1)
    IN  IF pcols # <<>>
        THEN SetCol(t1, OverallCol,
                    [r \in 1..t1.nrows |->
                        overall_alert([k \in 1..Len(pcols) |->
                                          t1.data[alert_col_of(pcols[k])][r]])],
                    FALSE)
        ELSE t1

apply_risk_alerts(t) ==
    LET pcols == risk_prob_cols(t)
        t1    == individual_alerts(t, pcols, 1)
    IN  IF pcols # <<>>
        THEN SetCol(t1, OverallCol,
                    [r \in 1..t1.nrows |->
                        overall_alert([k \in 1..Len(pcols) |->
                                          t1.data[alert_col_of(pcols[k])][r]])],
                    FALSE)
        ELSE SetCol(t1, OverallCol, Const(t1.nrows, NoRisks), FALSE)

-----------------------------------------------------------------------------
(* src/src/rule_recommendations.py *)

rules_risk_alert(prob) ==
    IF FloatLt(prob, 10) THEN Low
    ELSE IF FloatLt(prob, 30) THEN Moderate
    ELSE IF FloatLt(prob, 50) THEN High
    ELSE Severe

rules_severity_order == <<Low, Moderate, High, Severe>>

\* r for r in df.columns if "_risk_prob" in r
rules_risk_probs(t) == SelectSeq(t.cols, LAMBDA c : c[2] = "risk_prob")

RECURSIVE rules_individual_alerts(_, _, _)
rules_individual_alerts(t, pcols, i) ==
    IF i > Len(pcols) THEN t
    ELSE rules_individual_alerts(
             SetCol(t, alert_col_of(pcols[i]),
                    [r \in 1..t.nrows |-> rules_risk_alert(t.data[pcols[i]][r])], FALSE),
             pcols, i + 1)

RECURSIVE MaxInt(_, _, _)
MaxInt(list, i, best) ==
    IF i > Len(list) THEN best
    ELSE MaxInt(list, i + 1, IF list[i] > best THEN list[i] ELSE best)

rules_overall(t, pcols, r) ==
    IF pcols = <<>> THEN NoRisks
    ELSE LET idx == [k \in 1..Len(pcols) |->
                        ListIndex(rules_severity_order, t.data[alert_col_of(pcols[k])][r])]
         IN  rules_severity_order[MaxInt(idx, 2, idx[1]) + 1]

apply_alerts(t) ==
    LET pcols == rules_risk_probs(t)
        t1    == rules_individual_alerts(t, pcols, 1)
    IN  SetCol(t1, OverallCol, [r \in 1..t1.nrows |-> rules_overall(t1, pcols, r)], FALSE)

-----------------------------------------------------------------------------
(* The scoring objects of the registry.  A model is an opaque scorer:       *)
(*   name      its key in the registry (the hazard)                         *)
(*   hasNames  whether it has the attribute feature_names_in_               *)
(*   names     feature_names_in_                                            *)
(*   hasProba  whether it has the method predict_proba                      *)
(*   ncls      predict_proba(...).shape[1]                                  *)
(*   class0    classes_[0]                                                  *)
(*   start     which outputs it gives (see predict_proba_pos)               *)
(*   failAt    the step of its scoring that raises: "none", "align",        *)
(*             "proba" or "predict"                                         *)

ProbCycle == <<5, 10, 30, 50>>

\* model.predict_proba(X)[:, 1] at row r
predict_proba_pos(m, r) == ProbCycle[((m.start + r) % Len(ProbCycle)) + 1]

\* model.predict(X) at row r
model_predict(m, r) ==
    IF ~m.hasProba THEN (m.start + r) % 2
    ELSE IF m.ncls = 1 THEN m.class0
    ELSE IF predict_proba_pos(m, r) >= 50 THEN 1 ELSE 0

\* Whether scoring the model raises at one of the steps predict_risks takes.
Fails(m) ==
    \/ m.failAt = "align"
    \/ m.failAt = "proba" /\ m.hasProba
    \/ m.failAt = "predict"

-----------------------------------------------------------------------------
(* src/src/predict.py *)

\* df.select_dtypes(include=[np.number])
select_numeric(t) ==
    LET cs == SelectSeq(t.cols, LAMBDA c : c \in t.numeric)
    IN  [nrows |-> t.nrows, cols |-> cs,
         data |-> [c \in Range(cs) |-> t.data[c]], numeric |-> Range(cs)]

\* DataFrame.empty: some axis has length 0
IsEmpty(t) == t.nrows = 0 \/ t.cols = <<>>

align_features(X, trained_features) ==
    [nrows   |-> X.nrows,
     cols    |-> trained_features,
     data    |-> [c \in Range(trained_features) |->
                     IF HasCol(X, c) THEN X.data[c] ELSE Const(X.nrows, 0)],
     numeric |-> Range(trained_features)]

\* np.ones(len(X)) if only_class == 1 else np.zeros(len(X))
single_class_prob_swapped(m, n) == IF m.class0 = 1 THEN Const(n, 0) ELSE Const(n, 100)

single_class_prob(m, n) == IF m.class0 = 1 THEN Const(n, 100) ELSE Const(n, 0)

\* The body of the try statement, up to the statement that raises:
\* table is df_out as the body left it, scoredOn the tables the model was
\* called with.
try_body(t, X, m) ==
    LET trained_features == IF m.hasNames THEN m.names ELSE X.cols
        X_aligned == align_features(X, trained_features)
        n         == X.nrows
        predicted == [r \in 1..n |-> model_predict(m, r)]
    IN  IF m.failAt = "align"
        THEN [table |-> t, raised |-> TRUE, scoredOn |-> <<>>]
        ELSE IF m.hasProba
        THEN IF m.failAt = "proba"
             THEN [table |-> t, raised |-> TRUE, scoredOn |-> <<X_aligned>>]
             ELSE LET t1 == SetCol(t, ProbCol(m.name),
                                   IF m.ncls = 2
                                   THEN [r \in 1..n |-> predict_proba_pos(m, r)]
                                   ELSE single_class_prob(m, n),
                                   TRUE)
                  IN  IF m.failAt = "predict"
                      THEN [table |-> t1, raised |-> TRUE, scoredOn |-> <<X_aligned>>]
                      ELSE [table |-> SetCol(t1, PredCol(m.name), predicted, TRUE),
                            raised |-> FALSE, scoredOn |-> <<X_aligned>>]
        ELSE IF m.failAt = "predict"
             THEN [table |-> t, raised |-> TRUE, scoredOn |-> <<X_aligned>>]
             ELSE [table |-> SetCol(SetCol(t, ProbCol(m.name),
                                           [r \in 1..n |-> 100 * predicted[r]], TRUE),
                                    PredCol(m.name), predicted, TRUE),
                   raised |-> FALSE, scoredOn |-> <<X_aligned>>]

except_clause_keeps_prob(t, m) ==
    IF HasCol(t, ProbCol(m.name)) THEN t
    ELSE SetCol(t, ProbCol(m.name), Const(t.nrows, NaN), TRUE)

\* except Exception as e: df_out[f"{risk_name}_risk_prob"] = np.nan
except_clause(t, m) == SetCol(t, ProbCol(m.name), Const(t.nrows, NaN), TRUE)

\* The rest of the handler: the predicted class becomes the undefined
\* sentinel too.
except_tail(t, m) == SetCol(t, PredCol(m.name), Const(t.nrows, NaN), TRUE)

score_model_unguarded(t, X, m) == try_body(t, X, m)

\* One iteration of "for risk_name, model in models.items()": try / except.
score_model(t, X, m) ==
    LET res == try_body(t, X, m)
    IN  IF res.raised
        THEN [table |-> except_tail(except_clause(res.table, m), m),
              raised |-> FALSE, scoredOn |-> res.scoredOn]
        ELSE res

\* After the loop the function returns df_out.
return_df_out(t, seen) == [raised |-> FALSE, table |-> t, passed |-> seen]

RECURSIVE predict_loop(_, _, _, _, _)
predict_loop(t, X, ms, i, seen) ==
    IF i > Len(ms) THEN return_df_out(t, seen)
    ELSE LET res == score_model(t, X, ms[i])
             now == IF res.scoredOn = <<>> THEN seen
                    ELSE (ms[i].name :> res.scoredOn[1]) @@ seen
         IN  IF res.raised THEN [raised |-> TRUE, table |-> res.table, passed |-> now]
             ELSE predict_loop(res.table, X, ms, i + 1, now)

predict_risks(d, ms) ==
    LET X == select_numeric(d)
    IN  IF IsEmpty(X) THEN [raised |-> TRUE, table |-> d, passed |-> <<>>]
        ELSE predict_loop(d, X, ms, 1, <<>>)

-----------------------------------------------------------------------------
(* src/src/predict_risks.py: the variant behind a scaler.  X_for_pred is    *)
(* the scaled continuous columns beside the binary and cyclical ones; the   *)
(* caller names them, here all the numeric columns, and the cells of the    *)
(* table stand for the scaled values.                                       *)

ScaledProbCol(h) == <<h, "prob">>

ScaledPredCol(h) == <<h, "pred">>

\* lines 11-14: the schema of the FIRST model of the registry
align_to_first(X, ms) ==
    [nrows   |-> X.nrows,
     cols    |-> ms[1].names,
     data    |-> [c \in Range(ms[1].names) |->
                     IF HasCol(X, c) THEN X.data[c] ELSE Const(X.nrows, 0)],
     numeric |-> Range(ms[1].names)]

\* lines 17-23; nothing is caught, and df_features is changed in place
RECURSIVE scaled_predict_loop(_, _, _, _, _)
scaled_predict_loop(t, X, ms, i, seen) ==
    IF i > Len(ms) THEN [raised |-> FALSE, table |-> t, passed |-> seen]
    ELSE LET m   == ms[i]
             n   == X.nrows
             now == (m.name :> X) @@ seen
         IN  IF ~m.hasProba THEN [raised |-> TRUE, table |-> t, passed |-> seen]
             ELSE IF m.failAt = "proba" THEN [raised |-> TRUE, table |-> t, passed |-> now]
             ELSE LET t1 == SetCol(t, ScaledProbCol(m.name),
                                   IF m.ncls = 2
                                   THEN [r \in 1..n |-> predict_proba_pos(m, r)]
                                   ELSE single_class_prob(m, n),
                                   TRUE)
                  IN  IF m.failAt = "predict"
                      THEN [raised |-> TRUE, table |-> t1, passed |-> now]
                      ELSE scaled_predict_loop(
                               SetCol(t1, ScaledPredCol(m.name),
                                      [r \in 1..n |-> model_predict(m, r)], TRUE),
                               X, ms, i + 1, now)

\* line 6: scaler.transform refuses a frame without a row or a column;
\* line 11: models[list(models.keys())[0]].feature_names_in_
scaled_predict_risks(d, ms) ==
    IF IsEmpty(select_numeric(d)) \/ ms = <<>> \/ ~ms[1].hasNames \/ ms[1].failAt = "align"
    THEN [raised |-> TRUE, table |-> d, passed |-> <<>>]
    ELSE scaled_predict_loop(d, align_to_first(select_numeric(d), ms), ms, 1, <<>>)

-----------------------------------------------------------------------------
(* The inputs: feature tables and registries *)

Feature(name) == <<name, "">>

RuntimeCols == <<Feature("date"), Feature("rain_sum"), Feature("wind_gust_max"),
                 Feature("cloud_cover_total")>>

DateOnly == <<Feature("date")>>

SchemaABC == <<Feature("rain_sum"), Feature("wind_gust_max"), Feature("heavy_rain_flag")>>

SchemaBA == <<Feature("wind_gust_max"), Feature("rain_sum")>>

FeatureTable(cs, n) ==
    [nrows   |-> n,
     cols    |-> cs,
     data    |-> [c \in Range(cs) |-> [r \in 1..n |-> 10 * ListIndex(cs, c) + r]],
     numeric |-> Range(cs) \ {Feature("date")}]

Tables == {FeatureTable(cs, n) : cs \in {DateOnly, RuntimeCols}, n \in 0..MaxRows}

HazardNames == <<"flood", "rain", "storm", "landslide">>

Binary(s, f) == [hasProba |-> TRUE, ncls |-> 2, class0 |-> 0, start |-> s, failAt |-> f]

SingleClass(c) == [hasProba |-> TRUE, ncls |-> 1, class0 |-> c, start |-> 0, failAt |-> "none"]

NoProba(s) == [hasProba |-> FALSE, ncls |-> 2, class0 |-> 0, start |-> s, failAt |-> "none"]

Behaviours ==
    {Binary(s, "none") : s \in 0..3}
    \cup {Binary(0, f) : f \in {"align", "proba", "predict"}}
    \cup {SingleClass(c) : c \in {0, 1}}
    \cup {NoProba(s) : s \in {0, 1}}

Schemas == {<<>>, SchemaABC, SchemaBA}

\* A schema of <<>> stands for a model without feature_names_in_.
MkModel(name, schema, b) ==
    [name |-> name, hasNames |-> schema # <<>>, names |-> schema,
     hasProba |-> b.hasProba, ncls |-> b.ncls, class0 |-> b.class0,
     start |-> b.start, failAt |-> b.failAt]

RegistrySizes == 0..(IF MaxModels < Len(HazardNames) THEN MaxModels ELSE Len(HazardNames))

NoTable == [nrows |-> 0, cols |-> <<>>, data |-> <<>>, numeric |-> {}]

InitRest ==
    /\ pc = "start"
    /\ tbl = df
    /\ passed = <<>>
    /\ ran = <<>>
    /\ obs = NoTable
    /\ feat = NoTable
    /\ fe_pc = "idle"

\* Registries whose models share one schema and differ in what they do.
InitBehaviours ==
    /\ df \in Tables
    /\ \E n \in RegistrySizes : \E bs \in [1..n -> Behaviours] :
          models = [i \in 1..n |-> MkModel(HazardNames[i], SchemaABC, bs[i])]
    /\ InitRest

\* Registries of working binary models that differ in their schemas.
InitSchemas ==
    /\ df \in Tables
    /\ \E n \in RegistrySizes : \E ss \in [1..n -> Schemas] :
          models = [i \in 1..n |-> MkModel(HazardNames[i], ss[i], Binary(i, "none"))]
    /\ InitRest

\* A table that already holds one hazard's probability, any of 0.00 .. 1.00
\* or NaN, as apply_risk_alerts and apply_alerts may be handed.
ScoredTable(p) ==
    SetCol(FeatureTable(<<Feature("rain_sum")>>, 1), ProbCol("flood"), <<p>>, TRUE)

InitScored ==
    /\ df \in {ScoredTable(p) : p \in 0..100 \cup {NaN}}
    /\ models = <<>>
    /\ InitRest

Init == InitBehaviours \/ InitSchemas \/ InitScored

-----------------------------------------------------------------------------
(* The pipeline of src/app.py, lines 67-71, and its variant *)

PredictRisks ==
    /\ pc = "start"
    /\ LET res == predict_risks(df, models)
       IN  /\ pc' = IF res.raised THEN "error" ELSE "predicted"
           /\ tbl' = IF res.raised THEN tbl ELSE res.table
           /\ passed' = res.passed
    /\ ran' = Append(ran, "predict.py")
    /\ UNCHANGED <<df, models, obs, feat, fe_pc>>

PredictRisksScaled ==
    /\ pc = "start"
    /\ LET res == scaled_predict_risks(df, models)
       IN  /\ pc' = IF res.raised THEN "error" ELSE "predicted"
           /\ tbl' = res.table
           /\ passed' = res.passed
    /\ ran' = Append(ran, "predict_risks.py")
    /\ UNCHANGED <<df, models, obs, feat, fe_pc>>

ApplyRiskAlerts ==
    /\ pc \in {"start", "predicted"}
    /\ tbl' = apply_risk_alerts(tbl)
    /\ pc' = "alerted"
    /\ ran' = Append(ran, "recommendation.py")
    /\ UNCHANGED <<df, models, passed, obs, feat, fe_pc>>

ApplyAlerts ==
    /\ pc \in {"start", "predicted"}
    /\ tbl' = apply_alerts(tbl)
    /\ pc' = "alerted"
    /\ ran' = Append(ran, "rule_recommendations.py")
    /\ UNCHANGED <<df, models, passed, obs, feat, fe_pc>>

Next == PredictRisks \/ PredictRisksScaled \/ ApplyRiskAlerts \/ ApplyAlerts

Spec == Init /\ [][Next]_vars

-----------------------------------------------------------------------------
(* src/src/feature_engineering.py.  A rolling mean is held in sixtieths, so *)
(* that the mean of 3 and the mean of 6 cells are both integers.            *)

lag_features == <<"temperature_mean", "relative_humidity_mean", "rain_sum",
                  "precipitation_sum", "wind_speed_max", "wind_gust_max",
                  "soil_moisture_mean", "sea_level_pressure_mean">>

rolling_features == <<"rain_sum", "precipitation_sum", "wind_speed_max", "wind_gust_max">>

\* Series.shift(k)
shift(x, k) == [r \in 1..Len(x) |-> IF r - k >= 1 THEN x[r - k] ELSE NaN]

RECURSIVE SumCells(_, _, _)
SumCells(x, from, to) == IF from > to THEN 0 ELSE x[from] + SumCells(x, from + 1, to)

\* Series.rolling(w).mean(): min_periods is w, so a window that is short
\* of w rows or holds a NaN gives NaN.
rolling_mean(x, w) ==
    [r \in 1..Len(x) |->
        IF r < w \/ \E j \in (r - w + 1)..r : x[j] = NaN
        THEN NaN
        ELSE (60 \div w) * SumCells(x, r - w + 1, r)]

\* (Series > threshold).astype(int)
flag_above(x, threshold) == [r \in 1..Len(x) |-> IF FloatGt(x[r], threshold) THEN 1 ELSE 0]

\* fillna(method="bfill"): the next defined cell below
bfill(x) ==
    [r \in 1..Len(x) |->
        IF x[r] # NaN THEN x[r]
        ELSE IF \E j \in (r + 1)..Len(x) : x[j] # NaN
             THEN x[CHOOSE j \in (r + 1)..Len(x) :
                        x[j] # NaN /\ \A k \in (r + 1)..(j - 1) : x[k] = NaN]
             ELSE NaN]

\* fillna(method="ffill"): the last defined cell above
ffill(x) ==
    [r \in 1..Len(x) |->
        IF x[r] # NaN THEN x[r]
        ELSE IF \E j \in 1..(r - 1) : x[j] # NaN
             THEN x[CHOOSE j \in 1..(r - 1) :
                        x[j] # NaN /\ \A k \in (j + 1)..(r - 1) : x[k] = NaN]
             ELSE NaN]

\* fillna(0)
fillna_zero(x) == [r \in 1..Len(x) |-> IF x[r] = NaN THEN 0 ELSE x[r]]

\* lines 29-33
RECURSIVE add_lags(_, _)
add_lags(t, i) ==
    IF i > Len(lag_features) THEN t
    ELSE LET col == Feature(lag_features[i])
         IN  IF HasCol(t, col)
             THEN add_lags(
                      SetCol(SetCol(SetCol(t, <<col[1], "lag1">>, shift(t.data[col], 1), TRUE),
                                    <<col[1], "lag3">>, shift(t.data[col], 3), TRUE),
                             <<col[1], "lag6">>, shift(t.data[col], 6), TRUE),
                      i + 1)
             ELSE add_lags(t, i + 1)

\* lines 45-48
RECURSIVE add_rolls(_, _)
add_rolls(t, i) ==
    IF i > Len(rolling_features) THEN t
    ELSE LET col == Feature(rolling_features[i])
         IN  IF HasCol(t, col)
             THEN add_rolls(
                      SetCol(SetCol(t, <<col[1], "roll3">>, rolling_mean(t.data[col], 3), TRUE),
                             <<col[1], "roll6">>, rolling_mean(t.data[col], 6), TRUE),
                      i + 1)
             ELSE add_rolls(t, i + 1)

\* lines 53-57
add_flags(t) ==
    LET t1 == IF HasCol(t, Feature("rain_sum"))
              THEN SetCol(t, <<"heavy_rain", "flag">>,
                          flag_above(t.data[Feature("rain_sum")], 10), TRUE)
              ELSE t
    IN  IF HasCol(t1, Feature("wind_gust_max"))
        THEN SetCol(t1, <<"strong_wind", "flag">>,
                    flag_above(t1.data[Feature("wind_gust_max")], 40), TRUE)
        ELSE t1

final_fill_ffill_first(t) ==
    [t EXCEPT !.data = [c \in DOMAIN t.data |->
                           IF c \in t.numeric
                           THEN fillna_zero(bfill(ffill(t.data[c])))
                           ELSE t.data[c]]]

\* lines 62-65
final_fill(t) ==
    [t EXCEPT !.data = [c \in DOMAIN t.data |->
                           IF c \in t.numeric
                           THEN fillna_zero(ffill(bfill(t.data[c])))
                           ELSE t.data[c]]]

engineer_features(t) == final_fill(add_flags(add_rolls(add_lags(t, 1), 1)))

-----------------------------------------------------------------------------
(* The inputs of engineer_features: hourly tables of a date column and one  *)
(* observation column, whose cells are undefined, low or high.              *)

ObsColumns == {"rain_sum", "wind_gust_max", "precipitation_sum", "temperature_mean",
               "cloud_cover_total"}

ObsValues == {NaN, 5, 50}

ObsTable(name, x) ==
    [nrows   |-> Len(x),
     cols    |-> <<Feature("date"), Feature(name)>>,
     data    |-> (Feature("date") :> [r \in 1..Len(x) |-> r]) @@ (Feature(name) :> x),
     numeric |-> {Feature(name)}]

InitFE ==
    /\ \E name \in ObsColumns : \E n \in 0..MaxObsRows : \E x \in [1..n -> ObsValues] :
          obs = ObsTable(name, x)
    /\ feat = NoTable
    /\ fe_pc = "raw"
    /\ df = NoTable
    /\ tbl = NoTable
    /\ models = <<>>
    /\ passed = <<>>
    /\ ran = <<>>
    /\ pc = "idle"

\* src/app.py, line 65
EngineerFeatures ==
    /\ fe_pc = "raw"
    /\ feat' = engineer_features(obs)
    /\ fe_pc' = "engineered"
    /\ UNCHANGED <<obs, df, models, pc, tbl, passed, ran>>

NextFE == EngineerFeatures

SpecFE == InitFE /\ [][NextFE]_vars

-----------------------------------------------------------------------------
(* What the claims speak of *)

Via(stage) == ran # <<>> /\ ran[1] = stage

AlertedBy(stage) == pc = "alerted" /\ ran[Len(ran)] = stage

Rows == 1..tbl.nrows

\* The hazards with a {hazard}_risk_prob column in the current table.
ProbHazards == {c[1] : c \in {k \in Range(tbl.cols) : k[2] = "risk_prob"}}

AlertColumns == {k \in Range(tbl.cols) : k[2] = "risk_alert"}

ProbOf(h, r) == tbl.data[ProbCol(h)][r]

AlertOf(h, r) == tbl.data[AlertCol(h)][r]

Overall(r) == tbl.data[OverallCol][r]

\* The total order Low < Moderate < High < Severe.
SeverityRank(label) ==
    CASE label = Low -> 0
      [] label = Moderate -> 1
      [] label = High -> 2
      [] label = Severe -> 3
      [] OTHER -> -1

\* The label the thresholds 0.1, 0.3, 0.5 give a defined probability.
LabelMatches(label, p) ==
    /\ label = Low <=> p < 10
    /\ label = Moderate <=> (10 <= p /\ p < 30)
    /\ label = High <=> (30 <= p /\ p < 50)
    /\ label = Severe <=> p >= 50

-----------------------------------------------------------------------------
\* C1: for every probability p in [0,1] risk_alert(p) is Low iff p < 0.1,
\* Moderate iff 0.1 <= p < 0.3, High iff 0.3 <= p < 0.5 and Severe iff
\* p >= 0.5, in both copies of risk_alert, and so is every per-hazard alert
\* written for a defined probability.
C1_AlertMapping ==
    pc = "alerted" =>
        \A h \in ProbHazards : \A r \in Rows :
            ProbOf(h, r) \in 0..100 => LabelMatches(AlertOf(h, r), ProbOf(h, r))

\* The four labels, the inclusive lower bounds among their probabilities,
\* in one alerted table.
C1_Witness ==
    /\ AlertedBy("recommendation.py")
    /\ {10, 30, 50} \subseteq {ProbOf(h, r) : h \in ProbHazards, r \in Rows}
    /\ {Low, Moderate, High, Severe} \subseteq {AlertOf(h, r) : h \in ProbHazards, r \in Rows}

\* C2: with at least one {hazard}_risk_prob column, each row's
\* overall_alert is the maximum, under Low < Moderate < High < Severe, of
\* the row's per-hazard alerts: it is the alert of some hazard of the row
\* and no hazard of the row has a higher severity.
C2_OverallIsMax ==
    (pc = "alerted" /\ ProbHazards # {}) =>
        \A r \in Rows :
            /\ \E h \in ProbHazards : Overall(r) = AlertOf(h, r)
            /\ \A h \in ProbHazards : SeverityRank(AlertOf(h, r)) <= SeverityRank(Overall(r))

\* A row with the per-hazard alerts Low, High and Moderate and the overall
\* alert High.
C2_Witness ==
    /\ AlertedBy("recommendation.py")
    /\ \E r \in Rows :
          /\ {AlertOf(h, r) : h \in ProbHazards} = {Low, High, Moderate}
          /\ Overall(r) = High

\* C3: a hazard whose probability is NaN is excluded from the row's
\* maximum: in a row with a defined probability, overall_alert is the
\* highest alert among the hazards whose probability is defined.
C3_UndefinedExcluded ==
    AlertedBy("recommendation.py") =>
        \A r \in Rows :
            LET defined == {h \in ProbHazards : ProbOf(h, r) # NaN}
            IN  defined # {} =>
                    /\ \E h \in defined : Overall(r) = AlertOf(h, r)
                    /\ \A h \in defined :
                          SeverityRank(AlertOf(h, r)) <= SeverityRank(Overall(r))

\* What predict_risks would return had no model failed, and what it returns
\* when the registry is iterated in the opposite order.
Healed(ms) == [i \in 1..Len(ms) |-> [ms[i] EXCEPT !.failAt = "none"]]

Reversed(ms) == [i \in 1..Len(ms) |-> ms[Len(ms) + 1 - i]]

\* C4: in predict_risks of predict.py, whichever models raise, the call
\* returns a table, and the probability and prediction columns of every
\* model that does not raise are those of the run in which no model raises,
\* and those of the run over the registry in the opposite order.
C4_FailureIsolated ==
    (Via("predict.py") /\ ~IsEmpty(select_numeric(df))) =>
        /\ pc # "error"
        /\ pc = "predicted" =>
              LET healed   == predict_risks(df, Healed(models)).table
                  reversed == predict_risks(df, Reversed(models)).table
              IN  \A i \in 1..Len(models) :
                      LET h == models[i].name
                      IN  ~Fails(models[i]) =>
                              /\ HasCol(tbl, ProbCol(h)) /\ HasCol(tbl, PredCol(h))
                              /\ \A r \in Rows : ProbOf(h, r) # NaN
                              /\ tbl.data[ProbCol(h)] = healed.data[ProbCol(h)]
                              /\ tbl.data[PredCol(h)] = healed.data[PredCol(h)]
                              /\ tbl.data[ProbCol(h)] = reversed.data[ProbCol(h)]
                              /\ tbl.data[PredCol(h)] = reversed.data[PredCol(h)]

\* A returned table in which a model that raised stands between two that
\* were scored.
C4_Witness ==
    /\ Via("predict.py") /\ pc = "predicted"
    /\ Len(models) >= 3
    /\ ~Fails(models[1]) /\ Fails(models[2]) /\ ~Fails(models[3])
    /\ tbl.nrows >= 2

\* C5: in predict_risks of predict.py, a hazard whose scoring raises, at
\* the alignment, at predict_proba or at predict, has both its
\* {hazard}_risk_prob and its {hazard}_risk_pred column in the returned
\* table, NaN in every row.
C5_FailedIsNaN ==
    (Via("predict.py") /\ pc = "predicted") =>
        \A i \in 1..Len(models) :
            LET h == models[i].name
            IN  Fails(models[i]) =>
                    /\ HasCol(tbl, ProbCol(h)) /\ HasCol(tbl, PredCol(h))
                    /\ \A r \in Rows : ProbOf(h, r) = NaN /\ tbl.data[PredCol(h)][r] = NaN

\* A returned table after a model raised at predict, its probability
\* already computed, and another raised before its predict_proba.
C5_Witness ==
    /\ Via("predict.py") /\ pc = "predicted"
    /\ tbl.nrows >= 1
    /\ \E i \in 1..Len(models) : models[i].failAt = "predict" /\ models[i].hasProba
    /\ \E i \in 1..Len(models) : models[i].failAt \in {"align", "proba"}

\* The first n rows of a table.
Prefix(t, n) ==
    [t EXCEPT !.nrows = n, !.data = [c \in DOMAIN t.data |-> SubSeq(t.data[c], 1, n)]]

\* C6: engineer_features has no look-ahead: row T of its output is the same
\* on the full table and on the table cut after row T.
C6_NoLookAhead ==
    fe_pc = "engineered" =>
        \A T \in 1..obs.nrows :
            LET cut == engineer_features(Prefix(obs, T))
            IN  \A c \in Range(feat.cols) : feat.data[c][T] = cut.data[c][T]

\* C7: the table a model is scored on has exactly the model's own
\* feature_names_in_, in that order; a declared column the runtime table
\* lacks is all 0 and a declared column it has keeps its cells.
C7_AlignedToOwnSchema ==
    \A i \in 1..Len(models) :
        LET m == models[i]
            X == select_numeric(df)
        IN  (m.name \in DOMAIN passed /\ m.hasNames) =>
                /\ passed[m.name].cols = m.names
                /\ \A c \in Range(m.names) :
                      passed[m.name].data[c] =
                          IF HasCol(X, c) THEN X.data[c] ELSE Const(X.nrows, 0)

\* C8: a model whose predict_proba returns a single column gives its
\* hazard the probability 1.0 in every row when classes_[0] is 1 and 0.0
\* in every row otherwise, and no NaN.
C8_SingleClass ==
    pc = "predicted" =>
        \A i \in 1..Len(models) :
            LET m   == models[i]
                col == IF Via("predict.py") THEN ProbCol(m.name) ELSE ScaledProbCol(m.name)
            IN  (m.hasProba /\ m.ncls = 1 /\ ~Fails(m)) =>
                    /\ HasCol(tbl, col)
                    /\ \A r \in Rows :
                          tbl.data[col][r] = IF m.class0 = 1 THEN 100 ELSE 0

\* predict.py returned a table scored by a single-class model of class 1
\* and by one of class 0.
C8_Witness ==
    /\ Via("predict.py") /\ pc = "predicted"
    /\ tbl.nrows >= 2
    /\ \E i, j \in 1..Len(models) :
          /\ models[i].hasProba /\ models[i].ncls = 1 /\ models[i].class0 = 1
          /\ models[j].hasProba /\ models[j].ncls = 1 /\ models[j].class0 = 0
          /\ tbl.data[ProbCol(models[i].name)] = Const(tbl.nrows, 100)
          /\ tbl.data[ProbCol(models[j].name)] = Const(tbl.nrows, 0)

\* C9: with an empty registry predict_risks of predict.py ends in an
\* error: no table is returned and the alert stage does not run.
C9_EmptyRegistryFatal ==
    (models = <<>> /\ Via("predict.py")) => pc = "error"

\* C10: the alert stage of a table without a {hazard}_risk_prob column
\* adds no {hazard}_risk_alert column and sets overall_alert to
\* "No Risks Predicted" in every row, whatever the number of rows; with a
\* {hazard}_risk_prob column no row holds "No Risks Predicted".
C10_NoRisksSentinel ==
    pc = "alerted" =>
        /\ HasCol(tbl, OverallCol)
        /\ Len(tbl.data[OverallCol]) = tbl.nrows
        /\ ProbHazards = {} => (AlertColumns = {} /\ \A r \in Rows : Overall(r) = NoRisks)
        /\ ProbHazards # {} => \A r \in Rows : Overall(r) # NoRisks

\* An alerted table of no row and of no {hazard}_risk_prob column.
C10_Witness ==
    /\ pc = "alerted"
    /\ ProbHazards = {}
    /\ tbl.nrows = 0
    /\ HasCol(tbl, OverallCol)

\* The mean, in sixtieths, of x over the rows max(1, T - w + 1) .. T.
RECURSIVE WindowSum(_, _, _)
WindowSum(x, from, to) == IF from > to THEN 0 ELSE WindowSum(x, from, to - 1) + x[to]

ShrinkingMean(x, w, T) ==
    LET from == IF T - w + 1 > 1 THEN T - w + 1 ELSE 1
    IN  (60 \div (T - from + 1)) * WindowSum(x, from, T)

RollCol(name, w) == <<name, IF w = 3 THEN "roll3" ELSE "roll6">>

\* C11: for every rolling column and every window W of 3 and 6, the rolling
\* value at row T is the mean of the (fully defined) base column over the
\* rows max(0, T - W + 1) .. T, the window shrinking at the first W - 1
\* rows, so that the value at row 0 is the base value at row 0.
C11_ShrinkingRollingMean ==
    fe_pc = "engineered" =>
        \A i \in 1..Len(rolling_features) :
            LET name == rolling_features[i]
                base == Feature(name)
            IN  (HasCol(obs, base) /\ \A r \in 1..obs.nrows : obs.data[base][r] # NaN) =>
                    \A w \in {3, 6} : \A T \in 1..obs.nrows :
                        feat.data[RollCol(name, w)][T] = ShrinkingMean(obs.data[base], w, T)

\* The table after the derived columns were computed, before the final fill.
Derived == add_flags(add_rolls(add_lags(obs, 1), 1))

DefinedLater(x, r) == {j \in (r + 1)..Len(x) : x[j] # NaN}

DefinedEarlier(x, r) == {j \in 1..(r - 1) : x[j] # NaN}

Least(S) == CHOOSE j \in S : \A k \in S : j <= k

Greatest(S) == CHOOSE j \in S : \A k \in S : j >= k

\* C12: no numeric cell of the returned table is undefined; a cell that was
\* undefined after the derived columns were computed holds the next defined
\* value later in its column, else the last defined value earlier in it,
\* else 0; a cell that was defined is unchanged; this in every numeric
\* column, and no other column is touched.
C12_FinalFill ==
    fe_pc = "engineered" =>
        /\ feat.cols = Derived.cols
        /\ \A c \in Range(feat.cols) :
              LET x == Derived.data[c]
              IN  IF c \in Derived.numeric
                  THEN \A r \in 1..feat.nrows :
                          /\ feat.data[c][r] # NaN
                          /\ feat.data[c][r] =
                                IF x[r] # NaN THEN x[r]
                                ELSE IF DefinedLater(x, r) # {} THEN x[Least(DefinedLater(x, r))]
                                ELSE IF DefinedEarlier(x, r) # {}
                                     THEN x[Greatest(DefinedEarlier(x, r))]
                                ELSE 0
                  ELSE feat.data[c] = x

\* A returned table with a cell filled from a later row although an earlier
\* row was defined, a cell filled from an earlier row, and a column that
\* had no defined cell.
C12_Witness ==
    /\ fe_pc = "engineered"
    /\ feat.nrows >= 1
    /\ \E c \in Derived.numeric : \E r \in 1..feat.nrows :
          /\ Derived.data[c][r] = NaN
          /\ DefinedLater(Derived.data[c], r) # {}
          /\ DefinedEarlier(Derived.data[c], r) # {}
          /\ feat.data[c][r] # Derived.data[c][Greatest(DefinedEarlier(Derived.data[c], r))]
    /\ \E c \in Derived.numeric : \E r \in 1..feat.nrows :
          /\ Derived.data[c][r] = NaN
          /\ DefinedLater(Derived.data[c], r) = {}
          /\ DefinedEarlier(Derived.data[c], r) # {}
    /\ \E c \in Derived.numeric : \A r \in 1..feat.nrows :
          Derived.data[c][r] = NaN /\ feat.data[c][r] = 0

====
